---- MODULE Spec2Model ----
(***************************************************************************)
(* analyze_apk of src/app.py: the fact extraction over a parsed package,   *)
(* the URL harvest, the additive risk score with its label and reasons,    *)
(* and the recommendation, run by one or two request threads.              *)
(*                                                                         *)
(* Strings are TLA+ strings handled character by character; Python values  *)
(* are encoded as follows: None/True/False held in a result field are the  *)
(* strings PyNone/PyTrue/PyFalse, an optional collection returned by the   *)
(* parser is Some(seq) or Nothing, and a dict is a function from keys.     *)
(***************************************************************************)
EXTENDS Integers, Sequences, FiniteSets, TLC

\* --------------------------------------------------------------- bounds
MaxPerms   == 4   \* length of the raw permission collection
MaxExtra   == 2   \* URLs found in the file list
MaxThrows  == 1   \* collaborator calls that raise during one analysis

\* ------------------------------------------------------ character strings
\* The characters used, in code-point order (Python compares str by code point).
Alphabet == " !\"#$%&'()*+,-./0123456789:;<=>?@ABCDEFGHIJKLMNOPQRSTUVWXYZ[]_abcdefghijklmnopqrstuvwxyz~"
UpperCase == "ABCDEFGHIJKLMNOPQRSTUVWXYZ"
LowerCase == "abcdefghijklmnopqrstuvwxyz"
Digits    == "0123456789"

Ch(s, i) == SubSeq(s, i, i)
CharsOf(s) == {Ch(s, k) : k \in 1..Len(s)}
\* ord(c), up to the gaps between the characters listed
CodePoints == [c \in CharsOf(Alphabet) |-> CHOOSE k \in 1..Len(Alphabet) : Ch(Alphabet, k) = c]
Ord(c) == CodePoints[c]
UpperChars == CharsOf(UpperCase)
ToLower(c) ==
  IF c \in UpperChars
  THEN Ch(LowerCase, CHOOSE k \in 1..Len(UpperCase) : Ch(UpperCase, k) = c)
  ELSE c

Range(s) == {s[k] : k \in 1..Len(s)}

\* str.__lt__: lexicographic by code point, a proper prefix is smaller.
CodePointLess(x, y) ==
  LET n == IF Len(x) < Len(y) THEN Len(x) ELSE Len(y)
      \* length of the longest common prefix
      c == Cardinality({k \in 1..n : SubSeq(x, 1, k) = SubSeq(y, 1, k)})
  IN  IF c = n THEN Len(x) < Len(y)
      ELSE Ord(Ch(x, c + 1)) < Ord(Ch(y, c + 1))

\* str.startswith
StartsWith(s, p) == Len(p) <= Len(s) /\ SubSeq(s, 1, Len(p)) = p

\* the `in` operator on two strings
Contains(s, sub) ==
  \E k \in 1..(Len(s) - Len(sub) + 1) : SubSeq(s, k, k + Len(sub) - 1) = sub

\* ------------------------------------------------------------ URL harvest
\* The character class of url_regex: \w - . _ ~ : / ? # [ ] @ ! $ & ' ( ) * + , ; = %
UrlChars ==
  CharsOf(UpperCase) \cup CharsOf(LowerCase) \cup CharsOf(Digits)
    \cup CharsOf("_-.~:/?#[]@!$&'()*+,;=%")

\* Case-insensitive (re.IGNORECASE) match of the literal lit at position k of s.
MatchesAt(s, k, lit) ==
  /\ k + Len(lit) - 1 <= Len(s)
  /\ \A j \in 1..Len(lit) : ToLower(Ch(s, k + j - 1)) = Ch(lit, j)

\* Last position of the greedy run [class]+ starting at k (k - 1 if it is empty).
RunEnd(s, k) ==
  k - 1 + Cardinality({j \in k..Len(s) : \A m \in k..j : Ch(s, m) \in UrlChars})

\* End of the match of https?://[class]+ that starts at k, 0 when there is none.
\* "s?" is greedy: the form with s is tried first, the form without it on backtrack.
UrlMatchEnd(s, k) ==
  IF MatchesAt(s, k, "https://") /\ RunEnd(s, k + 8) >= k + 8 THEN RunEnd(s, k + 8)
  ELSE IF MatchesAt(s, k, "http://") /\ RunEnd(s, k + 7) >= k + 7 THEN RunEnd(s, k + 7)
  ELSE 0

\* The positions at which the pattern matches.
MatchStarts(s) == {k \in 1..Len(s) : UrlMatchEnd(s, k) # 0}

\* findall scans left to right: the leftmost match at or after k, then on
\* from the character after its end (matches do not overlap).
RECURSIVE FindAllFrom(_, _, _)
FindAllFrom(s, starts, k) ==
  LET ahead == {j \in starts : j >= k}
  IN  IF ahead = {} THEN <<>>
      ELSE LET j == CHOOSE x \in ahead : \A y \in ahead : x <= y
               e == UrlMatchEnd(s, j)
           IN  <<SubSeq(s, j, e)>> \o FindAllFrom(s, starts, e + 1)

\* url_regex.findall(s)
FindAll(s) == FindAllFrom(s, MatchStarts(s), 1)

\* ------------------------------------------------------- Python encodings
PyNone  == "None"
PyTrue  == "True"
PyFalse == "False"

Some(items) == [none |-> FALSE, val |-> items]
Nothing     == [none |-> TRUE, val |-> <<>>]
\* `x or []`
OrEmpty(r) == IF r.none THEN <<>> ELSE r.val

\* bool(x) for x among None, True, False
PyBool(x) == IF x = PyTrue THEN PyTrue ELSE PyFalse

\* d[k] = v on a dict
Put(d, k, v) == (k :> v) @@ d
\* d.get(k)
Get(d, k) == IF k \in DOMAIN d THEN d[k] ELSE PyNone

\* -------------------------------------------------------- fact extraction
dangerous_perm_prefixes == <<
  "android.permission.SEND_SMS",
  "android.permission.READ_SMS",
  "android.permission.RECEIVE_SMS",
  "android.permission.CALL_PHONE",
  "android.permission.RECORD_AUDIO",
  "android.permission.READ_CONTACTS",
  "android.permission.WRITE_CONTACTS",
  "android.permission.READ_CALL_LOG",
  "android.permission.WRITE_CALL_LOG",
  "android.permission.READ_EXTERNAL_STORAGE",
  "android.permission.WRITE_EXTERNAL_STORAGE",
  "android.permission.MANAGE_EXTERNAL_STORAGE",
  "android.permission.ACCESS_FINE_LOCATION",
  "android.permission.ACCESS_COARSE_LOCATION",
  "android.permission.SYSTEM_ALERT_WINDOW",
  "android.permission.REQUEST_INSTALL_PACKAGES",
  "android.permission.PACKAGE_USAGE_STATS",
  "android.permission.CAMERA" >>

\* ------------------------------------------------------------ risk scoring
UrlThreshold   == 10   \* len(urls) > 10
ManyDangerous  == 3    \* len(dangerous_perms) >= 3
RiskCap        == 10   \* min(10, risk)
LowMax         == 2    \* risk <= 2
MediumMax      == 5    \* risk <= 5

ReasonDebuggable == "App is debuggable (should be disabled in release builds)"
ReasonMultiple   == "Multiple dangerous permissions declared"
ReasonSome       == "Some dangerous permissions declared"
ReasonUrls       == "Lots of embedded URLs (possible trackers/endpoints)"
ReasonOverlay    == "Can draw over other apps (SYSTEM_ALERT_WINDOW)"
ReasonInstall    == "Can request to install packages (side-loading)"

\* risk += n; reasons.append(why)
Bump(acc, n, why) == [risk |-> acc.risk + n, reasons |-> Append(acc.reasons, why)]

\* if findings.get("debuggable"):
RuleDebuggable(acc, debuggable) ==
  IF debuggable = PyTrue THEN Bump(acc, 1, ReasonDebuggable) ELSE acc

\* if len(dangerous_perms) >= 3: ... elif len(dangerous_perms) > 0: ...
RuleDangerousCount(acc, dperms) ==
  IF Len(dperms) >= ManyDangerous THEN Bump(acc, 2, ReasonMultiple)
  ELSE IF Len(dperms) > 0 THEN Bump(acc, 1, ReasonSome)
  ELSE acc

\* Variant: len(urls) >= 10
RuleUrls_AtLeast(acc, urllist) ==
  IF Len(urllist) >= UrlThreshold THEN Bump(acc, 1, ReasonUrls) ELSE acc

\* if len(urls) > 10:
RuleUrls(acc, urllist) ==
  IF Len(urllist) > UrlThreshold THEN Bump(acc, 1, ReasonUrls) ELSE acc

\* if any("SYSTEM_ALERT_WINDOW" in p for p in dangerous_perms):
RuleOverlay(acc, dperms) ==
  IF \E k \in 1..Len(dperms) : Contains(dperms[k], "SYSTEM_ALERT_WINDOW")
  THEN Bump(acc, 1, ReasonOverlay) ELSE acc

\* Variant: the side-loading rule weighs 2.
RuleInstall_Heavy(acc, dperms) ==
  IF \E k \in 1..Len(dperms) : Contains(dperms[k], "REQUEST_INSTALL_PACKAGES")
  THEN Bump(acc, 2, ReasonInstall) ELSE acc

\* if any("REQUEST_INSTALL_PACKAGES" in p for p in dangerous_perms):
RuleInstall(acc, dperms) ==
  IF \E k \in 1..Len(dperms) : Contains(dperms[k], "REQUEST_INSTALL_PACKAGES")
  THEN Bump(acc, 1, ReasonInstall) ELSE acc

\* Variant: the overlay rule evaluated before the URL rule.
RiskRules_Reordered(debuggable, dperms, urllist) ==
  RuleInstall(
    RuleUrls(
      RuleOverlay(
        RuleDangerousCount(
          RuleDebuggable([risk |-> 0, reasons |-> <<>>], debuggable),
          dperms),
        dperms),
      urllist),
    dperms)

\* The five rules in source order, from risk = 0 and reasons = [].
RiskRules(debuggable, dperms, urllist) ==
  RuleInstall(
    RuleOverlay(
      RuleUrls(
        RuleDangerousCount(
          RuleDebuggable([risk |-> 0, reasons |-> <<>>], debuggable),
          dperms),
        urllist),
      dperms),
    dperms)

\* max(0, min(10, risk))
Clamp(risk) ==
  LET m == IF risk < RiskCap THEN risk ELSE RiskCap IN IF m > 0 THEN m ELSE 0

\* Variant: risk < 2 for Low
RiskLabel_Strict(risk) ==
  IF risk < LowMax THEN "Low" ELSE IF risk <= MediumMax THEN "Medium" ELSE "High"

RiskLabel(risk) ==
  IF risk <= LowMax THEN "Low" ELSE IF risk <= MediumMax THEN "Medium" ELSE "High"

\* Variant: the Medium branch missing, Medium falls through to the Low text.
Recommendation_NoMedium(label) ==
  IF label = "High" THEN
    [recommendation |-> "Install caution is advised (High risk).",
     recommendation_reason |->
       "Dangerous permissions or behavior detected. Avoid installing from untrusted sources."]
  ELSE
    [recommendation |-> "Generally safe (Low risk).",
     recommendation_reason |-> "No significant risk factors detected. Verify the source."]

Recommendation(label) ==
  IF label = "High" THEN
    [recommendation |-> "Install caution is advised (High risk).",
     recommendation_reason |->
       "Dangerous permissions or behavior detected. Avoid installing from untrusted sources."]
  ELSE IF label = "Medium" THEN
    [recommendation |-> "Recommended installation (Medium risk).",
     recommendation_reason |->
       "Multiple risk factors detected. Verify the source and review permissions before installation."]
  ELSE
    [recommendation |-> "Generally safe (Low risk).",
     recommendation_reason |-> "No significant risk factors detected. Verify the source."]

\* one entry of cert_list: the dict of the three attributes, or str(c) when
\* converting an attribute raises
CertEntry(c) ==
  IF c.printable
  THEN [kind |-> "dict", issuer |-> c.issuer, subject |-> c.subject,
        serial_number |-> c.serial_number]
  ELSE [kind |-> "str", text |-> c.repr]

CertList(certs) == [k \in 1..Len(certs) |-> CertEntry(certs[k])]

\* ------------------------------------------------- the parser collaborator
\* What the androguard APK object may hand back. A package is named by an id:
\* "any" is an arbitrary upload, each accessor of which may return any value
\* of its pool; the other ids are fixed packages whose accessors return one
\* value, the permission collection in any iteration order.
Accessors == <<"get_package", "get_app_name", "get_androidversion_name",
               "get_androidversion_code", "is_debuggable", "get_permissions",
               "get_receivers", "get_services", "get_activities",
               "get_android_manifest_xml", "get_files", "get_certificates">>

NumStr(n) == IF n < 10 THEN Ch(Digits, n + 1)
             ELSE Ch(Digits, (n \div 10) + 1) \o Ch(Digits, (n % 10) + 1)

\* The k-th URL, in one of three spellings of the scheme.
UrlNo(k) ==
  (IF k % 3 = 0 THEN "http://" ELSE IF k % 3 = 1 THEN "https://" ELSE "HTTP://")
    \o "h" \o NumStr(k) \o ".io/p"

RECURSIVE DataTags(_, _)
DataTags(from, to) ==
  IF from > to THEN ""
  ELSE "<data android:host=\"" \o UrlNo(from) \o "\"/>" \o DataTags(from + 1, to)

\* A manifest text with the URLs 1..n; its head holds near misses of the pattern.
ManifestXml(n) ==
  "<manifest package=\"com.example.app\" note=\"http:// https:/x.io ttp://y.io\">"
    \o DataTags(1, n) \o "</manifest>"

StrEntry(t)   == [str |-> TRUE, val |-> t]
BytesEntry(t) == [str |-> FALSE, val |-> t]

\* A file list with m URL-bearing paths, numbered from first, and two others.
FileList(first, m) ==
  <<StrEntry("classes.dex"), BytesEntry("res/http://bytes.io/x")>>
    \o [k \in 1..m |-> StrEntry("assets/" \o UrlNo(first + k - 1) \o " copy.png")]

GoodCert == [issuer |-> "CN=Android Debug", subject |-> PyNone, serial_number |-> "1",
             printable |-> TRUE, repr |-> "<Certificate 1>"]
OddCert  == [issuer |-> "CN=Odd", subject |-> "CN=Odd", serial_number |-> "2",
             printable |-> FALSE, repr |-> "<Certificate 2>"]

PermCamera   == "android.permission.CAMERA_OPEN_CLOSE_LISTENER"
PermSms      == "android.permission.READ_SMS"
PermAudio    == "android.permission.RECORD_AUDIO"
PermOverlay  == "android.permission.SYSTEM_ALERT_WINDOW"
PermInstall  == "android.permission.REQUEST_INSTALL_PACKAGES"
PermInternet == "android.permission.INTERNET"
PermVendor   == "com.vendor.permission.SYSTEM_ALERT_WINDOW"

PermPool == {PermCamera, PermSms, PermAudio, PermOverlay, PermInstall, PermVendor}

\* The fixed packages.
Samples ==
  [debug_only |->
     [get_package |-> "com.example.app", get_app_name |-> "Example",
      get_androidversion_name |-> "1.0", get_androidversion_code |-> "1",
      is_debuggable |-> PyTrue,
      get_permissions |-> Some(<<PermInternet, PermVendor, PermInternet>>),
      get_receivers |-> Nothing, get_services |-> Some(<<>>),
      get_activities |-> Some(<<"com.example.app.Main">>),
      get_android_manifest_xml |-> ManifestXml(0),
      get_files |-> FileList(1, 0),
      get_certificates |-> Some(<<GoodCert>>)],
   medium |->
     [get_package |-> "com.example.sms", get_app_name |-> "Sms",
      get_androidversion_name |-> "2.1", get_androidversion_code |-> "21",
      is_debuggable |-> PyFalse,
      get_permissions |-> Some(<<PermSms, PermCamera, PermAudio, PermInternet>>),
      get_receivers |-> Some(<<"com.example.sms.Boot">>),
      get_services |-> Some(<<"com.example.sms.Sync">>),
      get_activities |-> Some(<<"com.example.sms.Main">>),
      get_android_manifest_xml |-> ManifestXml(15),
      get_files |-> FileList(14, 2),
      get_certificates |-> Some(<<GoodCert, OddCert>>)],
   high |->
     [get_package |-> "com.example.overlay", get_app_name |-> PyNone,
      get_androidversion_name |-> "0.9", get_androidversion_code |-> "9",
      is_debuggable |-> PyTrue,
      get_permissions |-> Some(<<PermOverlay, PermInstall, PermSms, PermCamera>>),
      get_receivers |-> Some(<<"com.example.overlay.Boot">>),
      get_services |-> Nothing,
      get_activities |-> Some(<<"com.example.overlay.Main">>),
      get_android_manifest_xml |-> ManifestXml(18),
      get_files |-> FileList(18, 3),
      get_certificates |-> Some(<<GoodCert>>)]]

SampleIds == DOMAIN Samples

Count(seq, v) == Cardinality({k \in 1..Len(seq) : seq[k] = v})

\* Every iteration order of a collection.
Orders(seq) ==
  {s \in [1..Len(seq) -> Range(seq)] : \A v \in Range(seq) : Count(s, v) = Count(seq, v)}

RawPermissions ==
  {Nothing} \cup {Some(s) : s \in UNION {[1..n -> PermPool] : n \in 0..MaxPerms}}

\* The values accessor acc of an arbitrary upload may return.
AnyReturns(acc) ==
  CASE acc = "get_package"              -> {"com.example.app"}
    [] acc = "get_app_name"             -> {"Example"}
    [] acc = "get_androidversion_name"  -> {"1.0"}
    [] acc = "get_androidversion_code"  -> {"1"}
    [] acc = "is_debuggable"            -> {PyTrue, PyFalse, PyNone}
    [] acc = "get_permissions"          -> RawPermissions
    [] acc = "get_receivers"            -> {Some(<<"com.example.app.Boot">>)}
    [] acc = "get_services"             -> {Nothing}
    [] acc = "get_activities"           -> {Some(<<"com.example.app.Main">>)}
    [] acc = "get_android_manifest_xml" ->
         {PyNone, ManifestXml(UrlThreshold - 1), ManifestXml(UrlThreshold),
          ManifestXml(15), ManifestXml(20)}
    [] acc = "get_files"                ->
         {FileList(UrlThreshold, m) : m \in 0..MaxExtra}
    [] acc = "get_certificates"         -> {Nothing, Some(<<GoodCert, OddCert>>)}

\* The iteration orders of the permission collection of each fixed package.
SampleOrders ==
  [pkg \in SampleIds |-> {Some(s) : s \in Orders(Samples[pkg]["get_permissions"].val)}]

\* The values accessor acc of package pkg may return.
Returns(pkg, acc) ==
  IF pkg = "any" THEN AnyReturns(acc)
  ELSE IF acc = "get_permissions" THEN SampleOrders[pkg]
       ELSE {Samples[pkg][acc]}

ParseErrors == {"File is not a zip file"}

\* return {"ok": False, "error": "Androguard is not installed. ..."}
NotInstalled ==
  [ok |-> FALSE,
   error |-> "Androguard is not installed. Please install dependencies from requirements.txt"]

\* Variant: the failure dict carries an empty fact as well.
ParseFailure_WithFacts(e) ==
  [ok |-> FALSE, error |-> "Failed to parse APK: " \o e, permissions |-> <<>>]

\* return {"ok": False, "error": f"Failed to parse APK: {e}"}
ParseFailure(e) == [ok |-> FALSE, error |-> "Failed to parse APK: " \o e]

\* Variant: the handler rebinds findings instead of setting one key.
CertsFailed_Rebind(f) == [ok |-> TRUE, certificates |-> <<>>]

\* except Exception: findings["certificates"] = []
CertsFailed(f) == Put(f, "certificates", <<>>)

\* Every text the harvest can be handed, and the matches in each, computed
\* once (the pattern is applied to the same few texts in every state).
Packages == {"any"} \cup SampleIds
HarvestTexts ==
  UNION {Returns(pkg, "get_android_manifest_xml") : pkg \in Packages}
    \cup UNION {{files[k].val : k \in 1..Len(files)} :
                  files \in UNION {Returns(pkg, "get_files") : pkg \in Packages}}
Matches == [s \in HarvestTexts |-> FindAll(s)]
url_regex_findall(s) == IF s \in HarvestTexts THEN Matches[s] ELSE FindAll(s)

\* ------------------------------------------------------- sorting and facts
\* The strings that get sorted, and their order, computed once.
SortedStrings ==
  PermPool \cup UNION {Range(Samples[pkg]["get_permissions"].val) : pkg \in SampleIds}
    \cup UNION {Range(Matches[s]) : s \in HarvestTexts}
OrderOf == [x \in SortedStrings |-> [y \in SortedStrings |-> CodePointLess(x, y)]]
StrLess(x, y) ==
  IF x \in SortedStrings /\ y \in SortedStrings THEN OrderOf[x][y] ELSE CodePointLess(x, y)

\* sorted() of a list of strings (stable insertion; equal items stay).
RECURSIVE SortedList(_)
SortedList(l) ==
  IF l = <<>> THEN <<>>
  ELSE LET rest == SortedList(Tail(l))
           x    == Head(l)
           pos  == Cardinality({k \in 1..Len(rest) : StrLess(rest[k], x)})
       IN  SubSeq(rest, 1, pos) \o <<x>> \o SubSeq(rest, pos + 1, Len(rest))

\* list(set(l)): one element per distinct value; the set's iteration order
\* is not defined, and sorted() is applied right after at every use.
RECURSIVE ListOfSet(_)
ListOfSet(S) ==
  IF S = {} THEN <<>>
  ELSE LET x == CHOOSE e \in S : TRUE IN <<x>> \o ListOfSet(S \ {x})


\* Variant: sorted(a.get_permissions() or []), the set() left out.
NormalizePermissions_NoSet(raw) == SortedList(OrEmpty(raw))

\* Variant: duplicates dropped in iteration order, the sort left out.
RECURSIVE FirstOccurrences(_)
FirstOccurrences(l) ==
  IF l = <<>> THEN <<>>
  ELSE LET init == FirstOccurrences(SubSeq(l, 1, Len(l) - 1))
           x    == l[Len(l)]
       IN  IF x \in Range(init) THEN init ELSE Append(init, x)
NormalizePermissions_Unsorted(raw) == FirstOccurrences(OrEmpty(raw))

\* sorted(set(a.get_permissions() or []))
NormalizePermissions(raw) == SortedList(ListOfSet(Range(OrEmpty(raw))))

IsDangerous(p) ==
  \E k \in 1..Len(dangerous_perm_prefixes) : StartsWith(p, dangerous_perm_prefixes[k])

\* [p for p in permissions if any(p.startswith(dp) for dp in dangerous_perm_prefixes)]
RECURSIVE DangerousPerms(_)
DangerousPerms(perms) ==
  IF perms = <<>> THEN <<>>
  ELSE (IF IsDangerous(Head(perms)) THEN <<Head(perms)>> ELSE <<>>)
         \o DangerousPerms(Tail(perms))

\* sorted(set(urls))
DedupUrls(found) == SortedList(ListOfSet(Range(found)))


\* ---------------------------------------------------------------- state
Threads == {1, 2}

VARIABLES
  ANDRO_OK,        \* module level: whether androguard could be imported
  workers,         \* the request threads that serve uploads
  uploads,         \* the packages behind the files being uploaded
  pc,              \* per thread: position in analyze_apk
  a,               \* per thread: the parsed package ("none" before the parse)
  findings,        \* per thread: the dict under construction
  dangerous_perms, \* per thread: local list
  urls,            \* per thread: local list
  risk,            \* per thread: local accumulator
  reasons,         \* per thread: local list
  calls,           \* per thread: accessors called so far
  raised,          \* per thread: accessors that raised
  outcome,         \* per thread: "none", "returned" or "raised"
  result           \* per thread: the dict returned

vars == <<ANDRO_OK, workers, uploads, pc, a, findings, dangerous_perms, urls,
          risk, reasons, calls, raised, outcome, result>>

EmptyDict == <<>>

Idle ==
  /\ pc = [t \in Threads |-> "idle"]
  /\ a = [t \in Threads |-> "none"]
  /\ findings = [t \in Threads |-> EmptyDict]
  /\ dangerous_perms = [t \in Threads |-> <<>>]
  /\ urls = [t \in Threads |-> <<>>]
  /\ risk = [t \in Threads |-> 0]
  /\ reasons = [t \in Threads |-> <<>>]
  /\ calls = [t \in Threads |-> {}]
  /\ raised = [t \in Threads |-> {}]
  /\ outcome = [t \in Threads |-> "none"]
  /\ result = [t \in Threads |-> EmptyDict]

\* One request thread, arbitrary uploads.
Init ==
  /\ ANDRO_OK \in BOOLEAN
  /\ workers = {1}
  /\ uploads = {"any"}
  /\ Idle

\* Two request threads, uploads of the fixed packages.
InitConc ==
  /\ ANDRO_OK \in BOOLEAN
  /\ workers = Threads
  /\ uploads = SampleIds
  /\ Idle

\* What no step of analyze_apk before the scoring touches.
Env == UNCHANGED <<ANDRO_OK, workers, uploads, risk, reasons>>

\* A collaborator call may raise while fewer than MaxThrows calls have.
MayRaise(i) == Cardinality(raised[i]) < MaxThrows

\* The exception of accessor acc leaves analyze_apk.
Propagate(i, called, acc) ==
  /\ MayRaise(i)
  /\ calls' = [calls EXCEPT ![i] = @ \cup called]
  /\ raised' = [raised EXCEPT ![i] = @ \cup {acc}]
  /\ outcome' = [outcome EXCEPT ![i] = "raised"]
  /\ pc' = [pc EXCEPT ![i] = "done"]
  /\ UNCHANGED <<a, findings, dangerous_perms, urls, result>>
  /\ Env

\* ---------------------------------------------------------------- actions
\* upload() calls analyze_apk(save_path).
Call(i) ==
  /\ pc[i] = "idle"
  /\ pc' = [pc EXCEPT ![i] = "check"]
  /\ UNCHANGED <<a, findings, dangerous_perms, urls, calls, raised, outcome, result>>
  /\ Env

\* if not ANDRO_OK: return {...}
CheckParser(i) ==
  /\ pc[i] = "check"
  /\ IF ANDRO_OK
     THEN /\ pc' = [pc EXCEPT ![i] = "parse"]
          /\ UNCHANGED <<outcome, result>>
     ELSE /\ pc' = [pc EXCEPT ![i] = "done"]
          /\ outcome' = [outcome EXCEPT ![i] = "returned"]
          /\ result' = [result EXCEPT ![i] = NotInstalled]
  /\ UNCHANGED <<a, findings, dangerous_perms, urls, calls, raised>>
  /\ Env

\* try: a = APK(str(apk_path)) except: return {...}; findings = {"ok": True}
Parse(i) ==
  /\ pc[i] = "parse"
  /\ \/ \E pkg \in uploads :
          /\ a' = [a EXCEPT ![i] = pkg]
          /\ findings' = [findings EXCEPT ![i] = [ok |-> TRUE]]
          /\ pc' = [pc EXCEPT ![i] = "metadata"]
          /\ UNCHANGED <<outcome, result>>
     \/ \E e \in ParseErrors :
          /\ pc' = [pc EXCEPT ![i] = "done"]
          /\ outcome' = [outcome EXCEPT ![i] = "returned"]
          /\ result' = [result EXCEPT ![i] = ParseFailure(e)]
          /\ UNCHANGED <<a, findings>>
  /\ UNCHANGED <<dangerous_perms, urls, calls, raised>>
  /\ Env

\* findings["package_name"] = a.get_package() ... a.get_androidversion_code(),
\* four calls outside any try.
Metadata(i) ==
  /\ pc[i] = "metadata"
  /\ \/ \E pn \in Returns(a[i], "get_package"), an \in Returns(a[i], "get_app_name"),
           vn \in Returns(a[i], "get_androidversion_name"),
           vc \in Returns(a[i], "get_androidversion_code") :
          /\ findings' = [findings EXCEPT ![i] =
               Put(Put(Put(Put(@, "package_name", pn), "app_name", an),
                       "version_name", vn), "version_code", vc)]
          /\ calls' = [calls EXCEPT ![i] = @ \cup {Accessors[k] : k \in 1..4}]
          /\ pc' = [pc EXCEPT ![i] = "debuggable"]
          /\ UNCHANGED <<a, dangerous_perms, urls, raised, outcome, result>>
          /\ Env
     \/ \E n \in 1..4 : Propagate(i, {Accessors[k] : k \in 1..n}, Accessors[n])

\* try: findings["debuggable"] = bool(a.is_debuggable()) except: ... = None
Debuggable(i) ==
  /\ pc[i] = "debuggable"
  /\ \/ \E v \in Returns(a[i], "is_debuggable") :
          /\ findings' = [findings EXCEPT ![i] = Put(@, "debuggable", PyBool(v))]
          /\ UNCHANGED raised
     \/ /\ MayRaise(i)
        /\ findings' = [findings EXCEPT ![i] = Put(@, "debuggable", PyNone)]
        /\ raised' = [raised EXCEPT ![i] = @ \cup {"is_debuggable"}]
  /\ calls' = [calls EXCEPT ![i] = @ \cup {"is_debuggable"}]
  /\ pc' = [pc EXCEPT ![i] = "permissions"]
  /\ UNCHANGED <<a, dangerous_perms, urls, outcome, result>>
  /\ Env

\* permissions = sorted(set(a.get_permissions() or [])), outside any try;
\* dangerous_perms = [...]; findings["dangerous_permissions"] = sorted(dangerous_perms)
Permissions(i) ==
  /\ pc[i] = "permissions"
  /\ \/ \E raw \in Returns(a[i], "get_permissions") :
          LET permissions == NormalizePermissions(raw)
              dangerous   == DangerousPerms(permissions)
          IN  /\ dangerous_perms' = [dangerous_perms EXCEPT ![i] = dangerous]
              /\ findings' = [findings EXCEPT ![i] =
                   Put(Put(@, "permissions", permissions),
                       "dangerous_permissions", SortedList(dangerous))]
              /\ calls' = [calls EXCEPT ![i] = @ \cup {"get_permissions"}]
              /\ pc' = [pc EXCEPT ![i] = "receivers"]
              /\ UNCHANGED <<a, urls, raised, outcome, result>>
              /\ Env
     \/ Propagate(i, {"get_permissions"}, "get_permissions")

\* try: findings[key] = a.get_xxx() or [] except: findings[key] = []
Component(i, here, acc, key, next) ==
  /\ pc[i] = here
  /\ \/ \E v \in Returns(a[i], acc) :
          /\ findings' = [findings EXCEPT ![i] = Put(@, key, OrEmpty(v))]
          /\ UNCHANGED raised
     \/ /\ MayRaise(i)
        /\ findings' = [findings EXCEPT ![i] = Put(@, key, <<>>)]
        /\ raised' = [raised EXCEPT ![i] = @ \cup {acc}]
  /\ calls' = [calls EXCEPT ![i] = @ \cup {acc}]
  /\ pc' = [pc EXCEPT ![i] = next]
  /\ UNCHANGED <<a, dangerous_perms, urls, outcome, result>>
  /\ Env

Receivers(i)  == Component(i, "receivers", "get_receivers", "receivers", "services")
Services(i)   == Component(i, "services", "get_services", "services", "activities")
Activities(i) == Component(i, "activities", "get_activities", "activities", "manifest")

\* The matches in every str entry of the file list, in order.
RECURSIVE FileMatches(_)
FileMatches(files) ==
  IF files = <<>> THEN <<>>
  ELSE (IF Head(files).str THEN url_regex_findall(Head(files).val) ELSE <<>>)
         \o FileMatches(Tail(files))

\* try: manifest_xml = ...; urls += url_regex.findall(manifest_xml or "") except: pass
Manifest(i) ==
  /\ pc[i] = "manifest"
  /\ \/ \E manifest_xml \in Returns(a[i], "get_android_manifest_xml") :
          /\ urls' = [urls EXCEPT ![i] = @ \o url_regex_findall(manifest_xml)]
          /\ UNCHANGED raised
     \/ /\ MayRaise(i)
        /\ raised' = [raised EXCEPT ![i] = @ \cup {"get_android_manifest_xml"}]
        /\ UNCHANGED urls
  /\ calls' = [calls EXCEPT ![i] = @ \cup {"get_android_manifest_xml"}]
  /\ pc' = [pc EXCEPT ![i] = "files"]
  /\ UNCHANGED <<a, findings, dangerous_perms, outcome, result>>
  /\ Env

\* try: for f in a.get_files(): if isinstance(f, str): urls += ... except: pass
Files(i) ==
  /\ pc[i] = "files"
  /\ \/ \E files \in Returns(a[i], "get_files") :
          /\ urls' = [urls EXCEPT ![i] = @ \o FileMatches(files)]
          /\ UNCHANGED raised
     \/ /\ MayRaise(i)
        /\ raised' = [raised EXCEPT ![i] = @ \cup {"get_files"}]
        /\ UNCHANGED urls
  /\ calls' = [calls EXCEPT ![i] = @ \cup {"get_files"}]
  /\ pc' = [pc EXCEPT ![i] = "dedup"]
  /\ UNCHANGED <<a, findings, dangerous_perms, outcome, result>>
  /\ Env

\* urls = sorted(set(urls)); findings["urls"] = urls
Dedup(i) ==
  /\ pc[i] = "dedup"
  /\ urls' = [urls EXCEPT ![i] = DedupUrls(@)]
  /\ findings' = [findings EXCEPT ![i] = Put(@, "urls", DedupUrls(urls[i]))]
  /\ pc' = [pc EXCEPT ![i] = "certs"]
  /\ UNCHANGED <<a, dangerous_perms, calls, raised, outcome, result>>
  /\ Env

\* try: certs = a.get_certificates(); ...; findings["certificates"] = cert_list
\* except: findings["certificates"] = []
Certs(i) ==
  /\ pc[i] = "certs"
  /\ \/ \E certs \in Returns(a[i], "get_certificates") :
          /\ findings' = [findings EXCEPT ![i] =
               Put(@, "certificates", CertList(OrEmpty(certs)))]
          /\ UNCHANGED raised
     \/ /\ MayRaise(i)
        /\ findings' = [findings EXCEPT ![i] = CertsFailed(@)]
        /\ raised' = [raised EXCEPT ![i] = @ \cup {"get_certificates"}]
  /\ calls' = [calls EXCEPT ![i] = @ \cup {"get_certificates"}]
  /\ pc' = [pc EXCEPT ![i] = "score"]
  /\ UNCHANGED <<a, dangerous_perms, urls, outcome, result>>
  /\ Env

\* risk = 0; reasons = []; then the five rules in order
Score(i) ==
  /\ pc[i] = "score"
  /\ LET acc == RiskRules(Get(findings[i], "debuggable"), dangerous_perms[i], urls[i])
     IN  /\ risk' = [risk EXCEPT ![i] = acc.risk]
         /\ reasons' = [reasons EXCEPT ![i] = acc.reasons]
  /\ pc' = [pc EXCEPT ![i] = "cap"]
  /\ UNCHANGED <<ANDRO_OK, workers, uploads, a, findings, dangerous_perms, urls,
                 calls, raised, outcome, result>>

\* risk = max(0, min(10, risk)); the label;
\* findings["risk_score"], ["risk_label"], ["risk_reasons"]
Cap(i) ==
  /\ pc[i] = "cap"
  /\ risk' = [risk EXCEPT ![i] = Clamp(@)]
  /\ findings' = [findings EXCEPT ![i] =
       Put(Put(Put(@, "risk_score", Clamp(risk[i])), "risk_label", RiskLabel(Clamp(risk[i]))),
           "risk_reasons", reasons[i])]
  /\ pc' = [pc EXCEPT ![i] = "recommend"]
  /\ UNCHANGED <<ANDRO_OK, workers, uploads, a, dangerous_perms, urls, reasons,
                 calls, raised, outcome, result>>

\* if label == "High": ... ; findings["recommendation"] = ...; return findings
Recommend(i) ==
  /\ pc[i] = "recommend"
  /\ LET r == Recommendation(findings[i]["risk_label"])
         f == Put(Put(findings[i], "recommendation", r.recommendation),
                  "recommendation_reason", r.recommendation_reason)
     IN  /\ findings' = [findings EXCEPT ![i] = f]
         /\ result' = [result EXCEPT ![i] = f]
  /\ outcome' = [outcome EXCEPT ![i] = "returned"]
  /\ pc' = [pc EXCEPT ![i] = "done"]
  /\ UNCHANGED <<a, dangerous_perms, urls, calls, raised>>
  /\ Env

\* upload() hands the response over (or the exception to Flask); the locals
\* of the invocation are gone and the thread takes the next request.
Respond(i) ==
  /\ pc[i] = "done"
  /\ pc' = [pc EXCEPT ![i] = "idle"]
  /\ a' = [a EXCEPT ![i] = "none"]
  /\ findings' = [findings EXCEPT ![i] = EmptyDict]
  /\ dangerous_perms' = [dangerous_perms EXCEPT ![i] = <<>>]
  /\ urls' = [urls EXCEPT ![i] = <<>>]
  /\ risk' = [risk EXCEPT ![i] = 0]
  /\ reasons' = [reasons EXCEPT ![i] = <<>>]
  /\ calls' = [calls EXCEPT ![i] = {}]
  /\ raised' = [raised EXCEPT ![i] = {}]
  /\ outcome' = [outcome EXCEPT ![i] = "none"]
  /\ result' = [result EXCEPT ![i] = EmptyDict]
  /\ UNCHANGED <<ANDRO_OK, workers, uploads>>

Next ==
  \E i \in workers :
    \/ Call(i)
    \/ CheckParser(i)
    \/ Parse(i)
    \/ Metadata(i)
    \/ Debuggable(i)
    \/ Permissions(i)
    \/ Receivers(i)
    \/ Services(i)
    \/ Activities(i)
    \/ Manifest(i)
    \/ Files(i)
    \/ Dedup(i)
    \/ Certs(i)
    \/ Score(i)
    \/ Cap(i)
    \/ Recommend(i)
    \/ Respond(i)

Spec == Init /\ [][Next]_vars

SpecConc == InitConc /\ [][Next]_vars

\* --------------------------------------------------------------- properties
Success(i) == pc[i] = "done" /\ outcome[i] = "returned" /\ result[i]["ok"]

HasOverlay(dperms) == \E k \in 1..Len(dperms) : Contains(dperms[k], "SYSTEM_ALERT_WINDOW")
HasInstall(dperms) == \E k \in 1..Len(dperms) : Contains(dperms[k], "REQUEST_INSTALL_PACKAGES")
Ascending(l) == \A k \in 1..(Len(l) - 1) : CodePointLess(l[k], l[k + 1])

\* C1: in every successful result risk_score is an integer in [0,10] and
\* risk_label follows from it: <= 2 Low, 3..5 Medium, >= 6 High.
C1_ScoreRangeAndLabel ==
  \A i \in workers : Success(i) =>
    LET score == result[i]["risk_score"]
        label == result[i]["risk_label"]
    IN  /\ score \in 0..10
        /\ score <= 2 => label = "Low"
        /\ (3 <= score /\ score <= 5) => label = "Medium"
        /\ score >= 6 => label = "High"

C1_Witness ==
  \E i \in workers :
    Success(i) /\ result[i]["risk_score"] = 2 /\ result[i]["risk_label"] = "Low"

\* Where each accessor's value lands in the result, and the default of the field.
FieldOf ==
  [get_package |-> "package_name", get_app_name |-> "app_name",
   get_androidversion_name |-> "version_name", get_androidversion_code |-> "version_code",
   is_debuggable |-> "debuggable", get_permissions |-> "permissions",
   get_receivers |-> "receivers", get_services |-> "services",
   get_activities |-> "activities", get_android_manifest_xml |-> "urls",
   get_files |-> "urls", get_certificates |-> "certificates"]
ScalarAccessors ==
  {"get_package", "get_app_name", "get_androidversion_name", "get_androidversion_code",
   "is_debuggable"}
CollectionAccessors ==
  {"get_permissions", "get_receivers", "get_services", "get_activities", "get_certificates"}

\* C2: once the parse has succeeded analyze_apk never throws: whichever
\* single accessor fails, a result with ok = true comes back and the field
\* of the failed accessor holds its default (null or the empty collection).
C2_NeverThrowsAfterParse ==
  \A i \in workers : (pc[i] = "done" /\ a[i] # "none") =>
    /\ outcome[i] = "returned"
    /\ result[i]["ok"]
    /\ \A acc \in raised[i] \cap ScalarAccessors : result[i][FieldOf[acc]] = PyNone
    /\ \A acc \in raised[i] \cap CollectionAccessors : result[i][FieldOf[acc]] = <<>>

\* C3: when the parser is unavailable or the parse fails, the result has the
\* keys ok (false) and error only, no accessor has been called and nothing
\* downstream has been computed; an unavailable parser is found before any
\* parse is attempted.
C3_FailedParseDoesNothing ==
  \A i \in workers :
    /\ ~ANDRO_OK => (pc[i] \in {"idle", "check", "done"} /\ a[i] = "none")
    /\ (pc[i] = "done" /\ ~ANDRO_OK) => result[i] = NotInstalled
    /\ (pc[i] = "done" /\ a[i] = "none") =>
         /\ outcome[i] = "returned"
         /\ DOMAIN result[i] = {"ok", "error"}
         /\ ~result[i]["ok"]
         /\ calls[i] = {}
         /\ DOMAIN findings[i] = {}
         /\ dangerous_perms[i] = <<>> /\ urls[i] = <<>>
         /\ risk[i] = 0 /\ reasons[i] = <<>>

C3_Witness ==
  \E i \in workers : \E e \in ParseErrors :
    pc[i] = "done" /\ ANDRO_OK /\ result[i]["error"] = "Failed to parse APK: " \o e

\* C4: when only the retrieval of the certificate chain throws, the result
\* has ok = true and certificates = [], and every other field has the value
\* it has in an analysis of the same package in which the retrieval succeeds.
C4_CertFailureIsLocal ==
  \A i \in workers, j \in workers :
    ( /\ pc[i] = "done" /\ pc[j] = "done"
      /\ a[i] \in SampleIds /\ a[j] = a[i]
      /\ "get_certificates" \notin raised[j]
      /\ raised[i] = raised[j] \cup {"get_certificates"}
      /\ outcome[j] = "returned" ) =>
    /\ outcome[i] = "returned"
    /\ result[i]["ok"]
    /\ result[i]["certificates"] = <<>>
    /\ DOMAIN result[i] = DOMAIN result[j]
    /\ \A k \in DOMAIN result[j] \ {"certificates"} : result[i][k] = result[j][k]

C4_Witness ==
  \E i \in workers, j \in workers :
    /\ Success(i) /\ Success(j) /\ a[i] = "medium" /\ a[j] = "medium"
    /\ raised[i] = {"get_certificates"} /\ raised[j] = {}
    /\ result[i]["certificates"] = <<>>
    /\ Len(result[j]["certificates"]) = 2

\* C5: in every successful result permissions, dangerous_permissions and urls
\* are ascending without duplicates, and dangerous_permissions holds exactly
\* the permissions that start with one of the 18 dangerous prefixes.
C5_SortedFacts ==
  \A i \in workers : Success(i) =>
    LET perms == result[i]["permissions"]
        dperms == result[i]["dangerous_permissions"]
    IN  /\ Ascending(perms)
        /\ Ascending(dperms)
        /\ Ascending(result[i]["urls"])
        /\ Len(dangerous_perm_prefixes) = 18
        /\ Range(dperms) =
             {q \in Range(perms) :
                \E k \in 1..18 : StartsWith(q, dangerous_perm_prefixes[k])}

C5_Witness ==
  \E i \in workers :
    /\ Success(i)
    /\ Len(result[i]["permissions"]) = 4
    /\ Len(result[i]["dangerous_permissions"]) = 3
    /\ PermVendor \in Range(result[i]["permissions"])
    /\ PermCamera \in Range(result[i]["dangerous_permissions"])
    /\ Len(result[i]["urls"]) = 11

\* The sum of the rule contributions for a result.
RuleSum(r) ==
  LET n == Len(r["dangerous_permissions"])
  IN  (IF r["debuggable"] = PyTrue THEN 1 ELSE 0)
        + (IF n >= 3 THEN 2 ELSE IF n >= 1 THEN 1 ELSE 0)
        + (IF Len(r["urls"]) > 10 THEN 1 ELSE 0)
        + (IF HasOverlay(r["dangerous_permissions"]) THEN 1 ELSE 0)
        + (IF HasInstall(r["dangerous_permissions"]) THEN 1 ELSE 0)

\* C6: risk_score is the sum of the independent rule contributions (+1
\* debuggable; +2 for >= 3 dangerous permissions, else +1 for >= 1; +1 for
\* more than 10 URLs; +1 for SYSTEM_ALERT_WINDOW; +1 for
\* REQUEST_INSTALL_PACKAGES), with the three scenarios 1/Low, 3/Medium, 6/High.
C6_AdditiveScore ==
  \A i \in workers : Success(i) =>
    LET r == result[i]
        dperms == r["dangerous_permissions"]
        n == Len(dperms)
        nurls == Len(r["urls"])
    IN  /\ r["risk_score"] = RuleSum(r)
        /\ (r["debuggable"] = PyTrue /\ n = 0 /\ nurls = 0) =>
             (r["risk_score"] = 1 /\ r["risk_label"] = "Low")
        /\ (r["debuggable"] = PyFalse /\ n = 3 /\ ~HasOverlay(dperms)
              /\ ~HasInstall(dperms) /\ nurls = 15) =>
             (r["risk_score"] = 3 /\ r["risk_label"] = "Medium")
        /\ (r["debuggable"] = PyTrue /\ n = 4 /\ HasOverlay(dperms)
              /\ HasInstall(dperms) /\ nurls = 20) =>
             (r["risk_score"] = 6 /\ r["risk_label"] = "High")

C6_Witness ==
  \E i \in workers :
    /\ Success(i)
    /\ result[i]["debuggable"] = PyFalse
    /\ Len(result[i]["dangerous_permissions"]) = 3
    /\ ~HasOverlay(result[i]["dangerous_permissions"])
    /\ ~HasInstall(result[i]["dangerous_permissions"])
    /\ Len(result[i]["urls"]) = 10
    /\ result[i]["risk_score"] = 2

\* The reasons of the rules that fire for a result, in rule order.
FiredReasons(r) ==
  LET n == Len(r["dangerous_permissions"])
  IN  (IF r["debuggable"] = PyTrue THEN <<ReasonDebuggable>> ELSE <<>>)
        \o (IF n >= 3 THEN <<ReasonMultiple>> ELSE IF n >= 1 THEN <<ReasonSome>> ELSE <<>>)
        \o (IF Len(r["urls"]) > 10 THEN <<ReasonUrls>> ELSE <<>>)
        \o (IF HasOverlay(r["dangerous_permissions"]) THEN <<ReasonOverlay>> ELSE <<>>)
        \o (IF HasInstall(r["dangerous_permissions"]) THEN <<ReasonInstall>> ELSE <<>>)

\* C7: risk_reasons holds one reason per fired rule and nothing else, in the
\* order debuggable, dangerous count, URL count, SYSTEM_ALERT_WINDOW,
\* REQUEST_INSTALL_PACKAGES; it is empty exactly when no rule fires and never
\* holds both the 'Multiple' and the 'Some' reason.
C7_ReasonsInRuleOrder ==
  \A i \in workers : Success(i) =>
    LET r == result[i]
    IN  /\ r["risk_reasons"] = FiredReasons(r)
        /\ (r["risk_reasons"] = <<>>) <=> (RuleSum(r) = 0)
        /\ ~({ReasonMultiple, ReasonSome} \subseteq Range(r["risk_reasons"]))

C7_Witness ==
  \E i \in workers :
    /\ Success(i)
    /\ result[i]["risk_reasons"] = <<ReasonSome, ReasonUrls, ReasonOverlay>>

RecommendationTable ==
  [Low |-> <<"Generally safe (Low risk).",
             "No significant risk factors detected. Verify the source.">>,
   Medium |-> <<"Recommended installation (Medium risk).",
                "Multiple risk factors detected. Verify the source and review permissions before installation.">>,
   High |-> <<"Install caution is advised (High risk).",
              "Dangerous permissions or behavior detected. Avoid installing from untrusted sources.">>]

\* C8: every successful result carries the (recommendation,
\* recommendation_reason) pair of its risk_label's row of the three-entry
\* table, whatever its facts, score and reasons are.
C8_RecommendationByLabel ==
  \A i \in workers : Success(i) =>
    /\ result[i]["risk_label"] \in DOMAIN RecommendationTable
    /\ <<result[i]["recommendation"], result[i]["recommendation_reason"]>>
         = RecommendationTable[result[i]["risk_label"]]

C8_Witness ==
  \E i \in workers :
    /\ Success(i)
    /\ result[i]["risk_label"] = "Medium"
    /\ result[i]["recommendation"] = "Recommended installation (Medium risk)."

\* C9: two analyses of the same parser output (the permission collection in
\* any iteration order, the same accessors failing) hold the same facts at
\* every common position, however their steps interleave and whatever the
\* threads analysed before; at the end they finish the same way with
\* identical results: same facts, score, label and reasons in the same order.
C9_Deterministic ==
  \A i \in workers, j \in workers :
    ( /\ pc[i] = pc[j]
      /\ a[i] \in SampleIds /\ a[j] = a[i]
      /\ raised[i] = raised[j] ) =>
    /\ findings[i] = findings[j]
    /\ dangerous_perms[i] = dangerous_perms[j]
    /\ urls[i] = urls[j]
    /\ risk[i] = risk[j] /\ reasons[i] = reasons[j]
    /\ outcome[i] = outcome[j]
    /\ result[i] = result[j]

C9_Witness ==
  \E i \in workers, j \in workers :
    /\ i # j /\ Success(i) /\ Success(j)
    /\ a[i] = "high" /\ a[j] = "high" /\ raised[i] = {} /\ raised[j] = {}
    /\ Len(result[i]["permissions"]) = 4
    /\ result[i]["risk_reasons"] = result[j]["risk_reasons"]
    /\ Len(result[i]["risk_reasons"]) = 5

\* C10: the accumulated total never exceeds 6, so the cap leaves it alone;
\* the label is High exactly when the score is 6, which is exactly when all
\* five conditions hold; and when the SYSTEM_ALERT_WINDOW or the
\* REQUEST_INSTALL_PACKAGES rule fires, the count rule has fired and the
\* score is at least 2.
C10_TotalAtMostSix ==
  \A i \in workers :
    /\ pc[i] = "cap" => (risk[i] \in 0..6 /\ Clamp(risk[i]) = risk[i])
    /\ Success(i) =>
         LET r == result[i]
             dperms == r["dangerous_permissions"]
         IN  /\ (r["risk_label"] = "High") <=> (r["risk_score"] = 6)
             /\ (r["risk_score"] = 6) <=>
                  ( /\ r["debuggable"] = PyTrue
                    /\ Len(dperms) >= 3
                    /\ Len(r["urls"]) > 10
                    /\ HasOverlay(dperms)
                    /\ HasInstall(dperms) )
             /\ ({ReasonOverlay, ReasonInstall} \cap Range(r["risk_reasons"]) # {}) =>
                  ( /\ {ReasonMultiple, ReasonSome} \cap Range(r["risk_reasons"]) # {}
                    /\ r["risk_score"] >= 2 )

C10_Witness ==
  \E i \in workers :
    /\ Success(i)
    /\ result[i]["risk_score"] = 6
    /\ result[i]["risk_label"] = "High"
    /\ Len(result[i]["urls"]) = 11
    /\ Len(result[i]["dangerous_permissions"]) = 3

====
